---- MODULE Spec2Model ----
(***************************************************************************)
(* Model of src/bin/fasterthanlime_pin.rs: the four ways (v1..v4) of       *)
(* reading 32 bytes from an asynchronous byte source, the last two through *)
(* a wrapper that carries a one-second timer, driven by a single-task      *)
(* run-loop.                                                               *)
(*                                                                         *)
(* Time is kept relative: `remaining` is the distance from the current     *)
(* instant to the timer's deadline (0 = the deadline has been reached), so *)
(* `Instant::now() + Duration::from_secs(1)` is `remaining = Interval`.    *)
(* The inner source is a script: the outcome it gives to its k-th poll.    *)
(* Bytes are abstracted to their position in the source's stream: the      *)
(* buffer holds stream positions 0 .. filled-1.                            *)
(***************************************************************************)
EXTENDS Naturals, Sequences, FiniteSets

\* ---------------------------------------------------------------- bounds
MaxPolls == 2
Resolution == 2
Chunk == 16

\* ------------------------------------------------------- program constants
BufLen == 32
IntervalSecs == 1

Interval == IntervalSecs * Resolution
MaxElapsed == (MaxPolls + 1) * Interval

Variants == {"v1", "v2", "v3", "v4"}
Timed == {"v3", "v4"}

Min(a, b) == IF a < b THEN a ELSE b

\* ------------------------------------------------------- the inner source
Pending == [k |-> "pending", n |-> 0]
IoError == [k |-> "err", n |-> 0]
Ready(n) == [k |-> "ready", n |-> n]

ReadySizes == {0, Chunk, BufLen}
Outcomes == {Pending, IoError} \cup {Ready(n) : n \in ReadySizes}
Scripts == [1..MaxPolls -> Outcomes]

VARIABLES
    script, openOk,                 \* behaviour of the byte source
    variant,                        \* which do_it is running
    pc,                             \* position in do_it / main
    filled,                         \* bytes placed in buf so far
    remaining, armed,               \* Sleep: time to deadline, waker registered
    innerWaker,                     \* waker registered with the inner source
    woken,                          \* the run-loop has the task scheduled
    status, mainRet, readLen,       \* results of read_exact / main, read_len
    lastRet, lastInner,             \* last poll_read: its return, the inner outcome ("none": not polled)
    innerPolls, sleepReadys,        \* counts of inner polls / timer polls that returned Ready
    elapsed, sinceInner, delayed,   \* clock measurements (saturating)
    prev                            \* outcome of the previous do_it run

vars == <<script, openOk, variant, pc, filled, remaining, armed, innerWaker,
          woken, status, mainRet, readLen, lastRet, lastInner, innerPolls,
          sleepReadys, elapsed, sinceInner, delayed, prev>>

\* What the inner source answers to its k-th poll_read, given rem free bytes
\* in the ReadBuf. Past the end of the script the source delivers everything.
InnerPollRead(k, rem) ==
    IF k \in DOMAIN script
    THEN IF script[k].k = "ready" THEN Ready(Min(script[k].n, rem)) ELSE script[k]
    ELSE Ready(rem)

\* ------------------------------------------------------------- the timer
\* Sleep::poll: Ready once the deadline is reached.
SleepPoll(rem) == IF rem = 0 THEN "ready" ELSE "pending"

\* Mutant: the reset forgets to add the interval.
SleepResetNow == 0 * Interval

\* Sleep::reset(Instant::now() + Duration::from_secs(1))
SleepReset == Interval

\* Mutant: the timer is constructed with its deadline already reached.
NewSleepElapsed == 0 * Interval

\* time::sleep(Duration::from_secs(1)) at construction
NewSleep == Interval

\* ------------------------------------------------------------- poll_read
\* w = [remaining, armed]; out = what the inner source would answer;
\* rearm = whether the timer keeps the waker it was polled with across reset.
\* Result: ret (the Poll returned), polled (inner source polled), timer state.
\* Mutant: the pass-through reports a read error as an end of source.
V2PollReadEof(w, out, rearm) ==
    [ret |-> IF out = IoError THEN Ready(0) ELSE out, polled |-> TRUE,
     remaining |-> w.remaining, armed |-> w.armed]

V2PollRead(w, out, rearm) ==
    [ret |-> out, polled |-> TRUE, remaining |-> w.remaining, armed |-> w.armed]

V1PollRead(w, out, rearm) ==
    [ret |-> out, polled |-> TRUE, remaining |-> w.remaining, armed |-> w.armed]

\* Mutant: the inner source is polled whether or not the timer has elapsed.
V3PollReadEager(w, out, rearm) ==
    IF SleepPoll(w.remaining) = "ready"
    THEN [ret |-> out, polled |-> TRUE, remaining |-> SleepReset, armed |-> rearm]
    ELSE [ret |-> out, polled |-> TRUE, remaining |-> w.remaining, armed |-> TRUE]

\* Mutant: the timer is checked without handing it the task's waker.
V3PollReadNoWaker(w, out, rearm) ==
    IF SleepPoll(w.remaining) = "ready"
    THEN [ret |-> out, polled |-> TRUE, remaining |-> SleepReset, armed |-> rearm]
    ELSE [ret |-> Pending, polled |-> FALSE, remaining |-> w.remaining, armed |-> w.armed]

V3PollRead(w, out, rearm) ==
    IF SleepPoll(w.remaining) = "ready"
    THEN [ret |-> out, polled |-> TRUE, remaining |-> SleepReset, armed |-> rearm]
    ELSE [ret |-> Pending, polled |-> FALSE, remaining |-> w.remaining, armed |-> TRUE]

\* Mutant: a read error of the inner source is turned into Pending.
V4PollReadSwallow(w, out, rearm) ==
    IF SleepPoll(w.remaining) = "ready"
    THEN [ret |-> IF out = IoError THEN Pending ELSE out, polled |-> TRUE,
          remaining |-> SleepReset, armed |-> rearm]
    ELSE [ret |-> Pending, polled |-> FALSE, remaining |-> w.remaining, armed |-> TRUE]

\* Mutant: the timer is reset only when the inner source produced bytes.
V4PollReadResetOnData(w, out, rearm) ==
    IF SleepPoll(w.remaining) = "ready"
    THEN [ret |-> out, polled |-> TRUE,
          remaining |-> IF out.k = "ready" THEN SleepReset ELSE w.remaining,
          armed |-> rearm]
    ELSE [ret |-> Pending, polled |-> FALSE, remaining |-> w.remaining, armed |-> TRUE]

V4PollRead(w, out, rearm) ==
    IF SleepPoll(w.remaining) = "ready"
    THEN [ret |-> out, polled |-> TRUE, remaining |-> SleepReset, armed |-> rearm]
    ELSE [ret |-> Pending, polled |-> FALSE, remaining |-> w.remaining, armed |-> TRUE]

PollReadOf(v, w, out, rearm) ==
    CASE v = "v1" -> V1PollRead(w, out, rearm)
      [] v = "v2" -> V2PollRead(w, out, rearm)
      [] v = "v3" -> V3PollRead(w, out, rearm)
      [] v = "v4" -> V4PollRead(w, out, rearm)

\* ------------------------------------------------------------ read_exact
\* Mutant: a buffer that has just become full is not noticed.
ReadExactStepOffByOne(f, r) ==
    CASE r.k = "pending" -> [filled |-> f, st |-> "pending"]
      [] r.k = "err"     -> [filled |-> f, st |-> "err_read"]
      [] r.k = "ready" /\ r.n = 0 -> [filled |-> f, st |-> "err_eof"]
      [] r.k = "ready" /\ r.n > 0 /\ f + r.n <= BufLen -> [filled |-> f + r.n, st |-> "continue"]
      [] OTHER -> [filled |-> f + r.n, st |-> "ok"]

\* One turn of read_exact's loop around poll_read returning r, with f bytes
\* already in the buffer: the new fill and what the loop does next.
ReadExactStep(f, r) ==
    CASE r.k = "pending" -> [filled |-> f, st |-> "pending"]
      [] r.k = "err"     -> [filled |-> f, st |-> "err_read"]
      [] r.k = "ready" /\ r.n = 0 -> [filled |-> f, st |-> "err_eof"]
      [] r.k = "ready" /\ r.n > 0 /\ f + r.n < BufLen -> [filled |-> f + r.n, st |-> "continue"]
      [] OTHER -> [filled |-> f + r.n, st |-> "ok"]

\* Mutant: an error is dropped on the way up.
PropagateSwallow(st) == IF st \in {"err_open", "err_read", "err_eof"} THEN "ok" ELSE st

\* The `?` after an await, and main's own `?`: the result goes up as it is.
Propagate(st) == st

NoPrev == [ran |-> FALSE, variant |-> "v1", ret |-> "none", len |-> 0,
           polls |-> 0, at |-> 0, delayed |-> FALSE]

\* ------------------------------------------------------------------ Init
RunInit ==
    /\ pc = "open"
    /\ filled = 0
    /\ remaining = 0
    /\ armed = FALSE
    /\ innerWaker = FALSE
    /\ woken = FALSE
    /\ status = "running"
    /\ mainRet = "none"
    /\ readLen = 0
    /\ lastRet = "none"
    /\ lastInner = "none"
    /\ innerPolls = 0
    /\ sleepReadys = 0
    /\ elapsed = 0
    /\ sinceInner = 0
    /\ delayed = FALSE

Init ==
    /\ script \in Scripts
    /\ openOk \in BOOLEAN
    /\ variant \in Variants
    /\ prev = NoPrev
    /\ RunInit

\* --------------------------------------------------------------- actions
\* File::open(..).await?, ReadWrap::new, buf, Instant::now(): up to the
\* first poll of read_exact.
Open ==
    /\ pc = "open"
    /\ IF openOk
       THEN /\ pc' = "read"
            /\ remaining' = IF variant \in Timed THEN NewSleep ELSE 0
            /\ woken' = TRUE
            /\ status' = status
       ELSE /\ pc' = "end"
            /\ status' = "err_open"
            /\ UNCHANGED <<remaining, woken>>
    /\ UNCHANGED <<script, openOk, variant, filled, armed, innerWaker, mainRet,
                   readLen, lastRet, lastInner, innerPolls, sleepReadys,
                   elapsed, sinceInner, delayed, prev>>

\* The run-loop polls the task: one poll_read invocation inside read_exact's
\* loop, and what read_exact makes of it.
PollRead(rearm) ==
    /\ pc = "read"
    /\ woken
    /\ LET out == InnerPollRead(innerPolls + 1, BufLen - filled)
           r   == PollReadOf(variant, [remaining |-> remaining, armed |-> armed], out, rearm)
           re  == ReadExactStep(filled, r.ret)
       IN /\ filled' = re.filled
          /\ remaining' = r.remaining
          /\ armed' = r.armed
          /\ innerWaker' = IF r.polled THEN out.k = "pending" ELSE innerWaker
          /\ woken' = (re.st = "continue")
          /\ lastRet' = r.ret.k
          /\ lastInner' = IF r.polled THEN out.k ELSE "none"
          /\ innerPolls' = IF r.polled THEN innerPolls + 1 ELSE innerPolls
          /\ sleepReadys' = IF variant \in Timed /\ SleepPoll(remaining) = "ready"
                            THEN sleepReadys + 1 ELSE sleepReadys
          /\ sinceInner' = IF r.polled THEN 0 ELSE sinceInner
          /\ status' = IF re.st \in {"pending", "continue"} THEN status ELSE re.st
          /\ readLen' = IF re.st = "ok" THEN BufLen ELSE readLen
          /\ pc' = IF re.st \in {"pending", "continue"} THEN "read" ELSE "end"
    /\ UNCHANGED <<script, openOk, variant, mainRet, elapsed, delayed, prev>>

\* The inner source becomes ready and wakes the task.
InnerWake ==
    /\ pc = "read"
    /\ innerWaker
    /\ innerWaker' = FALSE
    /\ woken' = TRUE
    /\ UNCHANGED <<script, openOk, variant, pc, filled, remaining, armed, status,
                   mainRet, readLen, lastRet, lastInner, innerPolls, sleepReadys,
                   elapsed, sinceInner, delayed, prev>>

\* The timer reaches its deadline and wakes the task registered with it.
TimerFire ==
    /\ pc = "read"
    /\ armed
    /\ remaining = 0
    /\ armed' = FALSE
    /\ woken' = TRUE
    /\ UNCHANGED <<script, openOk, variant, pc, filled, remaining, innerWaker,
                   status, mainRet, readLen, lastRet, lastInner, innerPolls,
                   sleepReadys, elapsed, sinceInner, delayed, prev>>

\* The clock advances by one unit while the read is in flight. `delayed`
\* records a unit that passed while the task was runnable, or waiting for the
\* inner source, or past a deadline the timer had not yet announced: time
\* not spent waiting for the timer.
Tick ==
    /\ pc = "read"
    /\ remaining' = IF remaining > 0 THEN remaining - 1 ELSE 0
    /\ elapsed' = Min(elapsed + 1, MaxElapsed)
    /\ sinceInner' = Min(sinceInner + 1, Interval)
    /\ delayed' = (delayed \/ woken \/ innerWaker \/ remaining = 0)
    /\ UNCHANGED <<script, openOk, variant, pc, filled, armed, innerWaker, woken,
                   status, mainRet, readLen, lastRet, lastInner, innerPolls,
                   sleepReadys, prev>>

\* do_it returns (println! and Ok(()), or the error through `?`), then main.
Return ==
    /\ pc = "end"
    /\ pc' = "exit"
    /\ mainRet' = Propagate(Propagate(status))
    /\ UNCHANGED <<script, openOk, variant, filled, remaining, armed, innerWaker,
                   woken, status, readLen, lastRet, lastInner, innerPolls,
                   sleepReadys, elapsed, sinceInner, delayed, prev>>

\* main's list of variants: another variant is run against the same source.
Rerun(v) ==
    /\ pc = "exit"
    /\ ~prev.ran
    /\ v # variant
    /\ prev' = [ran |-> TRUE, variant |-> variant, ret |-> mainRet, len |-> readLen,
                polls |-> innerPolls, at |-> elapsed, delayed |-> delayed]
    /\ variant' = v
    /\ pc' = "open"
    /\ filled' = 0
    /\ remaining' = 0
    /\ armed' = FALSE
    /\ innerWaker' = FALSE
    /\ woken' = FALSE
    /\ status' = "running"
    /\ mainRet' = "none"
    /\ readLen' = 0
    /\ lastRet' = "none"
    /\ lastInner' = "none"
    /\ innerPolls' = 0
    /\ sleepReadys' = 0
    /\ elapsed' = 0
    /\ sinceInner' = 0
    /\ delayed' = FALSE
    /\ UNCHANGED <<script, openOk>>

\* One do_it under main, as main is written.
NextRun ==
    \/ Open
    \/ \E rearm \in BOOLEAN : PollRead(rearm)
    \/ InnerWake
    \/ TimerFire
    \/ Tick
    \/ Return

Next ==
    \/ NextRun
    \/ \E v \in Variants : Rerun(v)

Spec == Init /\ [][Next]_vars

\* The run-loop's scheduling: a woken task is polled, a registered waker is
\* woken once its source is ready, the clock runs, a finished do_it returns.
LiveSpec ==
    /\ Init
    /\ [][NextRun]_vars
    /\ WF_vars(Open)
    /\ WF_vars(\E rearm \in BOOLEAN : PollRead(rearm))
    /\ WF_vars(InnerWake)
    /\ WF_vars(TimerFire)
    /\ WF_vars(Tick)
    /\ WF_vars(Return)

\* ------------------------------------------------------------ vocabulary
IsPollRead == \E rearm \in BOOLEAN : PollRead(rearm)
InnerOut == InnerPollRead(innerPolls + 1, BufLen - filled)
IsErr(st) == st \in {"err_open", "err_read", "err_eof"}
Finished == pc \in {"end", "exit"}
Delivers == openOk /\ \A k \in DOMAIN script : script[k] \notin {IoError, Ready(0)}

\* ------------------------------------------------------------------- C1
\* C1: in v3 and v4 a poll_read that finds the timer short of its deadline
\* returns Pending without polling the inner source, and leaves the caller's
\* buffer and the timer's deadline as they were.
C1_TimerFirst ==
    [][(IsPollRead /\ variant \in Timed /\ remaining > 0)
        => /\ lastRet' = "pending"
           /\ lastInner' = "none"
           /\ innerPolls' = innerPolls
           /\ innerWaker' = innerWaker
           /\ filled' = filled
           /\ remaining' = remaining]_vars

C1_Witness ==
    /\ variant \in Timed
    /\ pc = "read"
    /\ lastRet = "pending"
    /\ lastInner = "none"
    /\ remaining > 0
    /\ innerPolls = 0

\* ------------------------------------------------------------------- C2
\* C2: in v3 and v4 a poll_read that finds the timer elapsed resets it one
\* interval ahead, polls the inner source exactly once and returns exactly
\* what the inner source returned: bytes, Pending or a read error.
C2_ElapsedDelegates ==
    [][(IsPollRead /\ variant \in Timed /\ remaining = 0)
        => /\ remaining' = Interval
           /\ innerPolls' = innerPolls + 1
           /\ sleepReadys' = sleepReadys + 1
           /\ lastInner' = InnerOut.k
           /\ lastRet' = InnerOut.k
           /\ innerWaker' = (InnerOut.k = "pending")
           /\ filled' = filled + InnerOut.n]_vars

C2_Witness ==
    /\ prev.ran /\ prev.variant = "v3" /\ prev.ret = "err_read"
    /\ variant = "v4"
    /\ pc = "read"
    /\ lastInner = "pending" /\ lastRet = "pending"
    /\ remaining = Interval

\* ------------------------------------------------------------------- C3
\* C3 as stated: in each of v1, v2, v3, v4 a progress step made less than
\* one interval after construction or after the last delegation reports
\* not-ready and leaves the inner source alone, and a later one moves the
\* deadline one interval ahead and delegates once.
C3_AllVariantsGated ==
    [][IsPollRead
        => IF sinceInner < Interval
           THEN lastRet' = "pending" /\ innerPolls' = innerPolls
           ELSE remaining' = Interval /\ innerPolls' = innerPolls + 1]_vars

\* C3 amended: that holds of v3 and v4; v1 and v2 carry no timer and every
\* progress step of theirs delegates to the inner source at once.
C3_TimedGated ==
    [][IsPollRead
        => IF variant \in Timed
           THEN IF sinceInner < Interval
                THEN lastRet' = "pending" /\ innerPolls' = innerPolls
                ELSE remaining' = Interval /\ innerPolls' = innerPolls + 1
           ELSE /\ innerPolls' = innerPolls + 1
                /\ lastRet' = InnerOut.k
                /\ remaining' = remaining /\ armed' = armed]_vars

C3_Witness ==
    /\ prev.ran /\ prev.variant \in {"v1", "v2"} /\ prev.polls > 0 /\ prev.at = 0
    /\ variant \in Timed
    /\ innerPolls = 2
    /\ sinceInner > 0 /\ sinceInner < Interval
    /\ lastRet = "pending" /\ lastInner = "none"

\* ------------------------------------------------------------------- C4
\* C4: through v3 or v4, when the source can be opened and hands over all 32
\* bytes at its first poll, read_exact completes with read_len = 32 after
\* one timer expiry and one inner poll, no sooner than one interval after
\* the start, and exactly one interval after it if nothing else delayed it.
C4_OneSleepCycle ==
    (variant \in Timed /\ Finished /\ openOk /\ InnerPollRead(1, BufLen) = Ready(BufLen))
        => /\ status = "ok"
           /\ readLen = BufLen
           /\ filled = BufLen
           /\ sleepReadys = 1
           /\ innerPolls = 1
           /\ elapsed >= Interval
           /\ (~delayed => elapsed = Interval)

C4_Witness ==
    /\ variant = "v4"
    /\ pc = "exit"
    /\ mainRet = "ok"
    /\ readLen = BufLen
    /\ innerPolls = 1
    /\ elapsed = Interval

\* ------------------------------------------------------------------- C5
\* C5: a failure to open the source, a read error from the inner source and
\* an end of source before 32 bytes each end read_exact, do_it and main with
\* that failure; afterwards the inner source is not polled again and the
\* failure never turns into success or Pending.
C5_FailureSurfaces ==
    [][/\ (pc = "open" /\ ~openOk /\ pc' # "open")
            => (status' = "err_open" /\ pc' = "end" /\ innerPolls' = 0)
       /\ (IsPollRead /\ innerPolls' # innerPolls /\ InnerOut = IoError)
            => (lastRet' = "err" /\ status' = "err_read" /\ pc' = "end")
       /\ (IsPollRead /\ innerPolls' # innerPolls /\ InnerOut = Ready(0))
            => (status' = "err_eof" /\ pc' = "end")
       /\ (IsErr(status) /\ pc' # "open")
            => /\ status' = status
               /\ innerPolls' = innerPolls
               /\ filled' = filled
               /\ readLen' = 0
               /\ pc' \in {"end", "exit"}
       /\ (pc' = "exit" /\ IsErr(status')) => mainRet' = status']_vars

C5_Witness ==
    /\ variant = "v4"
    /\ pc = "exit"
    /\ mainRet = "err_eof"
    /\ filled > 0
    /\ prev.ran /\ prev.ret = "err_eof"

\* ------------------------------------------------------------------- C6
SameOutcome ==
    /\ prev.ret = mainRet
    /\ prev.len = readLen
    /\ prev.polls = innerPolls

\* C6 as stated: two variants run against the same source and clock, with
\* no delay from the source or the scheduler, end with the same result, the
\* same byte count and at the same elapsed time.
C6_AllVariantsSame ==
    (prev.ran /\ pc = "exit")
        => /\ SameOutcome
           /\ (mainRet = "ok" /\ ~prev.delayed /\ ~delayed) => prev.at = elapsed

\* C6 amended: the result, the byte count and the number of inner polls are
\* the same for all four variants; the elapsed time is the same only among
\* v1, v2 (no timer: nothing is waited for) and among v3, v4 (one interval
\* per inner poll).
C6_SameOutcomeTimedLater ==
    (prev.ran /\ pc = "exit")
        => /\ SameOutcome
           /\ (~prev.delayed /\ ~delayed /\ (prev.variant \in Timed <=> variant \in Timed))
                => prev.at = elapsed
           /\ (~delayed /\ variant \notin Timed) => elapsed = 0
           /\ (~delayed /\ variant \in Timed) => elapsed = innerPolls * Interval

C6_Witness ==
    /\ prev.ran /\ prev.variant = "v1" /\ prev.ret = "ok" /\ prev.len = BufLen
    /\ ~prev.delayed /\ prev.at = 0 /\ prev.polls = 2
    /\ variant = "v4" /\ pc = "exit" /\ mainRet = "ok" /\ readLen = BufLen
    /\ ~delayed /\ elapsed = 2 * Interval

\* ------------------------------------------------------------------- C8
\* C8: in v3 and v4, once a poll_read has delegated, whatever the inner
\* source answered, the deadline lies exactly one interval after that
\* delegation, and a following poll_read made before it returns Pending
\* without polling the inner source.
C8_SleepsAfterDelegation ==
    /\ [](variant \in Timed /\ lastInner # "none" => remaining = Interval - sinceInner)
    /\ [][(IsPollRead /\ variant \in Timed /\ lastInner # "none" /\ sinceInner < Interval)
            => /\ lastRet' = "pending"
               /\ lastInner' = "none"
               /\ innerPolls' = innerPolls]_vars

C8_Witness ==
    /\ variant \in Timed
    /\ pc = "read"
    /\ innerPolls = 1
    /\ filled = 0
    /\ lastRet = "pending" /\ lastInner = "none"
    /\ sinceInner < Interval

\* ------------------------------------------------------------------ C10
\* C10: in v3 and v4 the inner source is polled once per timer expiry, never
\* less than one interval after construction or after its previous poll, so
\* k inner polls take at least k intervals.
C10_RateLimit ==
    /\ [](variant \in Timed => /\ innerPolls = sleepReadys
                               /\ elapsed >= innerPolls * Interval)
    /\ [][(variant \in Timed /\ innerPolls' = innerPolls + 1)
            => sinceInner = Interval]_vars

C10_Witness ==
    /\ variant \in Timed
    /\ pc = "exit"
    /\ mainRet = "ok"
    /\ innerPolls = MaxPolls + 1
    /\ elapsed = innerPolls * Interval

\* ------------------------------------------------------------------- C9
\* C9: in v3 and v4 a poll_read that returns Pending leaves the task's waker
\* with the timer, its deadline still ahead, or with the inner source; and
\* under the run-loop's scheduling, a read from a source that can be opened
\* and neither fails nor ends is eventually completed with 32 bytes.
C9_NoLostWakeup ==
    /\ [][(IsPollRead /\ variant \in Timed /\ lastRet' = "pending")
            => /\ (armed' /\ remaining' > 0) \/ innerWaker'
               /\ (lastInner' = "pending") => innerWaker']_vars
    /\ [](variant \in Timed /\ pc = "read" /\ ~woken
            => innerWaker \/ armed)
    /\ (variant \in Timed /\ pc = "read" /\ Delivers)
            ~> (Finished /\ status = "ok" /\ readLen = BufLen /\ filled = BufLen)

C9_Witness ==
    /\ variant \in Timed
    /\ pc = "read"
    /\ ~woken
    /\ lastRet = "pending" /\ lastInner = "pending"
    /\ innerWaker /\ ~armed
    /\ remaining = 0
    /\ filled > 0

====
